---- MODULE Spec2Model ----
(***************************************************************************)
(* Model of the inference core of jang: priors (jang/stats/priors.py),     *)
(* likelihoods (jang/stats/likelihoods.py), the posterior loops            *)
(* (jang/stats/posteriors.py) and the upper-limit extraction               *)
(* (src/jang/limits.py).                                                   *)
(*                                                                         *)
(* Numbers.  The code computes in float64.  The model computes exactly:    *)
(*   - a rational is a pair <<n, d>> in lowest terms with d > 0;           *)
(*   - an extended rational adds the IEEE specials inf, -inf and nan;      *)
(*   - np.log / gammaln results are kept symbolic as  lin + ln(arg);       *)
(*   - np.exp / np.sqrt results are kept symbolic as finite sums of terms  *)
(*     c * exp(l) * sqrt(r)  with rational c, l, r.                        *)
(* Rounding of float64 is not modelled.                                    *)
(***************************************************************************)
EXTENDS Integers, Sequences, FiniteSets, TLC

(***************************************************************************)
(* Bounds of the model.                                                    *)
(***************************************************************************)
NSamples == 2        \* samples (detection channels) of the detector
MaxToys == 2         \* at most this many toys in ana.toys
GridCount == 3       \* points of the log-spaced grid of the flux range
NSide == 1           \* healpix resolution parameter of the sky map

(***************************************************************************)
(* Exact rationals.                                                        *)
(***************************************************************************)
Abs(n) == IF n < 0 THEN -n ELSE n

RECURSIVE Gcd(_, _)
Gcd(a, b) == IF b = 0 THEN a ELSE Gcd(b, a % b)

Q(n, d) ==
    LET s == IF d < 0 THEN -1 ELSE 1
        g == Gcd(Abs(n), Abs(d))
    IN  <<(s * n) \div g, (s * d) \div g>>

QInt(n) == <<n, 1>>
QZero == <<0, 1>>
QOne == <<1, 1>>
QAdd(a, b) ==
    LET g == Gcd(a[2], b[2])
    IN  Q(a[1] * (b[2] \div g) + b[1] * (a[2] \div g), (a[2] \div g) * b[2])
QNeg(a) == <<-a[1], a[2]>>
QSub(a, b) == QAdd(a, QNeg(b))
QMul(a, b) ==
    LET g1 == Gcd(Abs(a[1]), b[2])
        g2 == Gcd(Abs(b[1]), a[2])
    IN  Q((a[1] \div g1) * (b[1] \div g2), (a[2] \div g2) * (b[2] \div g1))
QDiv(a, b) == QMul(a, Q(b[2], b[1]))                \* b # 0
QLt(a, b) == a[1] * b[2] < b[1] * a[2]
QLeq(a, b) == a[1] * b[2] <= b[1] * a[2]
QPos(a) == a[1] > 0

RECURSIVE QPow(_, _)
QPow(a, n) == IF n = 0 THEN QOne ELSE QMul(a, QPow(a, n - 1))

RECURSIVE Factorial(_)
Factorial(n) == IF n <= 0 THEN 1 ELSE n * Factorial(n - 1)

(***************************************************************************)
(* Extended rationals: float64 specials of numpy arithmetic.               *)
(***************************************************************************)
Fin(q) == [k |-> "fin", q |-> q]
NaN == [k |-> "nan", q |-> QZero]
PInf == [k |-> "pinf", q |-> QZero]
NInf == [k |-> "ninf", q |-> QZero]

\* a + b on float64
XAdd(a, b) ==
    IF a.k = "nan" \/ b.k = "nan" THEN NaN
    ELSE IF a.k = "fin" /\ b.k = "fin" THEN Fin(QAdd(a.q, b.q))
    ELSE IF a.k = "fin" THEN b
    ELSE IF b.k = "fin" THEN a
    ELSE IF a.k = b.k THEN a ELSE NaN

\* a / b on float64 (numpy: x/0 is +-inf, 0/0 is nan, with a warning only)
XDiv(a, b) ==
    IF a.k = "nan" \/ b.k = "nan" THEN NaN
    ELSE IF a.k = "fin" /\ b.k = "fin" THEN
        IF b.q[1] # 0 THEN Fin(QDiv(a.q, b.q))
        ELSE IF a.q[1] = 0 THEN NaN
        ELSE IF a.q[1] > 0 THEN PInf ELSE NInf
    ELSE IF a.k = "fin" THEN Fin(QZero)
    ELSE IF b.k = "fin" THEN
        IF (a.k = "pinf") = (b.q[1] >= 0) THEN PInf ELSE NInf
    ELSE NaN

(***************************************************************************)
(* Log-domain values  lin + ln(arg)  (arg > 0), with the specials.         *)
(* np.log and scipy gammaln are kept exact: n*ln(e) - gammaln(n+1) is      *)
(* ln(e^n / n!).                                                           *)
(***************************************************************************)
LFin(lin, arg) == [k |-> "fin", lin |-> lin, arg |-> arg]
LNInf == [k |-> "ninf", lin |-> QZero, arg |-> QOne]
LPInf == [k |-> "pinf", lin |-> QZero, arg |-> QOne]
LNaN == [k |-> "nan", lin |-> QZero, arg |-> QOne]
LZero == LFin(QZero, QOne)

\* a + b on float64, for log-domain values
LAdd(a, b) ==
    IF a.k = "nan" \/ b.k = "nan" THEN LNaN
    ELSE IF a.k = "fin" /\ b.k = "fin"
        THEN LFin(QAdd(a.lin, b.lin), QMul(a.arg, b.arg))
    ELSE IF a.k = "fin" THEN b
    ELSE IF b.k = "fin" THEN a
    ELSE IF a.k = b.k THEN a ELSE LNaN

\* np.log(q) for a rational q
LLog(q) ==
    IF QPos(q) THEN LFin(QZero, q)
    ELSE IF q = QZero THEN LNInf ELSE LNaN

(***************************************************************************)
(* Linear-domain values: finite sums of terms c * exp(l) * sqrt(r), kept   *)
(* as a function from the key <<l, r>> to the coefficient c # 0.  exp and  *)
(* sqrt only produce positive terms, so a sum whose coefficients are all   *)
(* positive is positive and the empty sum is 0.                            *)
(***************************************************************************)
NoTerms == [key \in {} |-> QZero]
VFin(t) == [k |-> "fin", t |-> t]
VZero == VFin(NoTerms)
VNaN == [k |-> "nan", t |-> NoTerms]
VPInf == [k |-> "pinf", t |-> NoTerms]
VNInf == [k |-> "ninf", t |-> NoTerms]
VTerm(c, l, r) ==
    IF c = QZero THEN VZero ELSE VFin([key \in {<<l, r>>} |-> c])
VOne == VTerm(QOne, QZero, QOne)

Coef(v, key) == IF key \in DOMAIN v.t THEN v.t[key] ELSE QZero

\* the sign of a value, where the representation decides it
VSign(v) ==
    IF v.k = "nan" THEN "nan"
    ELSE IF v.k = "pinf" THEN "pos"
    ELSE IF v.k = "ninf" THEN "neg"
    ELSE IF DOMAIN v.t = {} THEN "zero"
    ELSE IF \A key \in DOMAIN v.t : QPos(v.t[key]) THEN "pos"
    ELSE IF \A key \in DOMAIN v.t : ~QPos(v.t[key]) THEN "neg"
    ELSE "mixed"

VNonNeg(v) == VSign(v) \in {"zero", "pos"}

\* a + b on float64
VAdd(a, b) ==
    IF a.k = "nan" \/ b.k = "nan" THEN VNaN
    ELSE IF a.k = "fin" /\ b.k = "fin" THEN
        LET keys == (DOMAIN a.t) \cup (DOMAIN b.t)
            sum(key) == QAdd(Coef(a, key), Coef(b, key))
        IN  VFin([key \in {x \in keys : sum(x) # QZero} |-> sum(key)])
    ELSE IF a.k = "fin" THEN b
    ELSE IF b.k = "fin" THEN a
    ELSE IF a.k = b.k THEN a ELSE VNaN

KeyMul(x, y) == <<QAdd(x[1], y[1]), QMul(x[2], y[2])>>

RECURSIVE SumPairs(_, _, _)
SumPairs(a, b, P) ==
    IF P = {} THEN QZero
    ELSE LET p == CHOOSE x \in P : TRUE
         IN  QAdd(QMul(a.t[p[1]], b.t[p[2]]), SumPairs(a, b, P \ {p}))

\* a * b on float64 (0 * inf is nan)
VMul(a, b) ==
    IF a.k = "nan" \/ b.k = "nan" THEN VNaN
    ELSE IF a.k = "fin" /\ b.k = "fin" THEN
        LET pairs == (DOMAIN a.t) \X (DOMAIN b.t)
            keys == {KeyMul(p[1], p[2]) : p \in pairs}
            prod(key) ==
                SumPairs(a, b, {p \in pairs : KeyMul(p[1], p[2]) = key})
        IN  VFin([key \in {x \in keys : prod(x) # QZero} |-> prod(key)])
    ELSE LET sa == VSign(a)
             sb == VSign(b)
         IN  IF sa = "zero" \/ sb = "zero" THEN VNaN
             ELSE IF sa = sb THEN VPInf
             ELSE IF {sa, sb} = {"pos", "neg"} THEN VNInf
             ELSE VNaN      \* a sum of mixed sign: does not occur

\* np.exp of a log-domain value
VExp(x) ==
    IF x.k = "nan" THEN VNaN
    ELSE IF x.k = "pinf" THEN VPInf
    ELSE IF x.k = "ninf" THEN VZero
    ELSE VTerm(x.arg, x.lin, QOne)

\* np.sqrt of an extended rational (sqrt of a negative number is nan)
VSqrt(x) ==
    IF x.k = "nan" \/ x.k = "ninf" THEN VNaN
    ELSE IF x.k = "pinf" THEN VPInf
    ELSE IF QLt(x.q, QZero) THEN VNaN
    ELSE IF x.q = QZero THEN VZero
    ELSE VTerm(QOne, QZero, x.q)

\* 1 / v on float64, for a value of at most one term (1/0 is inf)
VRecip(v) ==
    IF v.k = "nan" THEN VNaN
    ELSE IF v.k # "fin" THEN VZero
    ELSE IF DOMAIN v.t = {} THEN VPInf
    ELSE LET key == CHOOSE x \in DOMAIN v.t : DOMAIN v.t = {x}
         IN  VTerm(QDiv(QOne, v.t[key]), QNeg(key[1]), QDiv(QOne, key[2]))

(***************************************************************************)
(* numpy shapes: a value is a 0-d scalar or a 1-d array over the grid.     *)
(* Binary operations broadcast a scalar over an array.                     *)
(***************************************************************************)
Sc(x) == [sh |-> "sc", v |-> x]
Arr(s) == [sh |-> "arr", v |-> s]

Broadcast(Op(_, _), a, b) ==
    IF a.sh = "arr" /\ b.sh = "arr"
        THEN Arr([i \in DOMAIN a.v |-> Op(a.v[i], b.v[i])])
    ELSE IF a.sh = "arr" THEN Arr([i \in DOMAIN a.v |-> Op(a.v[i], b.v)])
    ELSE IF b.sh = "arr" THEN Arr([i \in DOMAIN b.v |-> Op(a.v, b.v[i])])
    ELSE Sc(Op(a.v, b.v))

Map(Op(_), a) ==
    IF a.sh = "arr" THEN Arr([i \in DOMAIN a.v |-> Op(a.v[i])])
    ELSE Sc(Op(a.v))

\* the elements of a value, whatever its shape

\* np.zeros_like(var) / np.ones_like(var)
zeros_like(var) == Arr([i \in DOMAIN var.v |-> VZero])
ones_like(var) == Arr([i \in DOMAIN var.v |-> VOne])

\* -x and n * x (n a non-negative integer) on float64, for log-domain values
LNeg(x) ==
    IF x.k = "fin" THEN LFin(QNeg(x.lin), QDiv(QOne, x.arg))
    ELSE IF x.k = "pinf" THEN LNInf
    ELSE IF x.k = "ninf" THEN LPInf ELSE LNaN

LScale(n, x) ==
    IF x.k = "fin" THEN LFin(QMul(QInt(n), x.lin), QPow(x.arg, n))
    ELSE IF x.k = "nan" \/ n = 0 THEN LNaN ELSE x

\* scipy.special.gammaln(n + 1) = ln(n!)
gammaln1(n) == LFin(QZero, QInt(Factorial(n)))

(***************************************************************************)
(* jang/stats/priors.py                                                    *)
(* var is the grid (array of rationals); bkg and conv hold one rational    *)
(* per sample.                                                             *)
(***************************************************************************)
flat(var) == ones_like(var)

invsqrt(var) == Map(LAMBDA q : VRecip(VSqrt(Fin(q))), var)

\* mutant: no guard, every sample contributes
jeffrey_term_noguard(var, b, c) ==
    Map(LAMBDA q : XDiv(Fin(QMul(c, c)), Fin(QAdd(QMul(c, q), b))), var)

\* mutant: the guard reads conv[i] >= 0
jeffrey_term_geq(var, b, c) ==
    IF QLeq(QZero, c)
        THEN Map(LAMBDA q : XDiv(Fin(QMul(c, c)), Fin(QAdd(QMul(c, q), b))), var)
        ELSE Sc(Fin(QZero))

\* one entry of the list tmp: an array over the grid, or the integer 0
jeffrey_term(var, b, c) ==
    IF QPos(c)
        THEN Map(LAMBDA q : XDiv(Fin(QMul(c, c)), Fin(QAdd(QMul(c, q), b))), var)
        ELSE Sc(Fin(QZero))

\* np.sum(tmp, axis=0) over the first n entries: the entries are added with
\* broadcasting (a list of an array and the integer 0 is an object array in
\* the numpy releases the package was written for)
RECURSIVE jeffrey_sum(_, _, _, _)
jeffrey_sum(var, bkg, conv, n) ==
    IF n = 0 THEN Sc(Fin(QZero))
    ELSE Broadcast(XAdd, jeffrey_sum(var, bkg, conv, n - 1),
                   jeffrey_term(var, bkg[n], conv[n]))

jeffrey_poisson(var, bkg, conv) ==
    LET nsamples == Len(bkg)
    IN  Map(VSqrt, jeffrey_sum(var, bkg, conv, nsamples))

Returned(val) == [raised |-> FALSE, val |-> val, err |-> "none"]
Raised(err) == [raised |-> TRUE, val |-> Sc(VNaN), err |-> err]

\* mutant: an unknown prior type falls back to the flat prior
signal_parameter_default_flat(var, bkg, conv, prior_type) ==
    IF prior_type = "jeffrey" THEN Returned(jeffrey_poisson(var, bkg, conv))
    ELSE IF prior_type = "invsqrt" THEN Returned(invsqrt(var))
    ELSE Returned(flat(var))

signal_parameter(var, bkg, conv, prior_type) ==
    IF prior_type = "flat" THEN Returned(flat(var))
    ELSE IF prior_type = "jeffrey" THEN Returned(jeffrey_poisson(var, bkg, conv))
    ELSE IF prior_type = "invsqrt" THEN Returned(invsqrt(var))
    ELSE Raised("RuntimeError")

(***************************************************************************)
(* jang/stats/likelihoods.py                                               *)
(***************************************************************************)
\* nexpected = conv * var + nbackground
nexpected_of(nbackground, conv, var) ==
    Map(LAMBDA q : QAdd(QMul(conv, q), nbackground), var)

\* mutant: the excluded region gets log-likelihood 0 instead of -inf
logpoisson_one_sample_zero(nobserved, nbackground, conv, var) ==
    LET nexpected == nexpected_of(nbackground, conv, var)
    IN  Map(LAMBDA e :
                IF QPos(e)
                    THEN LAdd(LAdd(LFin(QNeg(e), QOne), LScale(nobserved, LLog(e))),
                              LNeg(gammaln1(nobserved)))
                    ELSE LZero,
            nexpected)

logpoisson_one_sample(nobserved, nbackground, conv, var) ==
    LET nexpected == nexpected_of(nbackground, conv, var)
    IN  Map(LAMBDA e :
                IF QPos(e)
                    THEN LAdd(LAdd(LFin(QNeg(e), QOne), LScale(nobserved, LLog(e))),
                              LNeg(gammaln1(nobserved)))
                    ELSE LNInf,
            nexpected)

\* the loop of poisson_several_samples over the first n samples
RECURSIVE poisson_loglkl(_, _, _, _, _)
poisson_loglkl(nobserved, nbackground, conv, var, n) ==
    IF n = 0 THEN Map(LAMBDA q : LZero, var)
    ELSE Broadcast(LAdd,
                   poisson_loglkl(nobserved, nbackground, conv, var, n - 1),
                   logpoisson_one_sample(nobserved[n], nbackground[n], conv[n], var))

Min(a, b) == IF a < b THEN a ELSE b

poisson_several_samples(nobserved, nbackground, conv, var) ==
    LET n == Min(Len(nobserved), Min(Len(nbackground), Len(conv)))
    IN  Map(VExp, poisson_loglkl(nobserved, nbackground, conv, var, n))

(***************************************************************************)
(* Samples for the point-source likelihood.  sample.events is None         *)
(* (present = FALSE) or a list of events; sample.pdfs[n][kind] is None     *)
(* (FALSE) or a density (TRUE).  A density is a pure function of its       *)
(* arguments; an event carries the values the densities take on it:        *)
(* sig_ang[src] for pdfs["signal"]["ang"](evt, ra_src, dec_src),           *)
(* sig_time_var for pdfs["signal"]["time"](evt, t0, sigma_t), and one      *)
(* value for each density that is called with the event alone.             *)
(***************************************************************************)
NoOtherVar == [present |-> FALSE, keys |-> {}]

pdf_signal(sample, evt, src, has_var_time) ==
    LET ang == IF sample.pdfs.signal.ang THEN evt.sig_ang[src] ELSE QOne
        ene == IF sample.pdfs.signal.ene THEN evt.sig_ene ELSE QOne
        time == IF sample.pdfs.signal.time
                    THEN IF has_var_time THEN evt.sig_time_var ELSE evt.sig_time
                    ELSE QOne
    IN  QMul(QMul(ang, ene), time)

pdf_background(sample, evt) ==
    LET ang == IF sample.pdfs.background.ang THEN evt.bkg_ang ELSE QOne
        ene == IF sample.pdfs.background.ene THEN evt.bkg_ene ELSE QOne
        time == IF sample.pdfs.background.time THEN evt.bkg_time ELSE QOne
    IN  QMul(QMul(ang, ene), time)

\* mutant: the window parameters are used as soon as one of them is supplied
has_var_time_either(other_var) ==
    other_var.present /\ ("t0" \in other_var.keys \/ "sigma_t" \in other_var.keys)

\* has_var_time = (other_var is not None) and
\*                ("t0" in other_var and "sigma_t" in other_var)
has_var_time_of(other_var) ==
    other_var.present /\ "t0" \in other_var.keys /\ "sigma_t" \in other_var.keys

\* The density calls made for one event, in the order of the code: for each
\* hypothesis n the densities that are not None, each with its arguments.
hypothesis_calls(sample, n, has_var_time) ==
    (IF sample.pdfs[n].ang
        THEN <<[n |-> n, kind |-> "ang",
                args |-> IF n = "signal" THEN "evt,ra_src,dec_src" ELSE "evt"]>>
        ELSE <<>>)
    \o (IF sample.pdfs[n].ene
           THEN <<[n |-> n, kind |-> "ene", args |-> "evt"]>>
           ELSE <<>>)
    \o (IF sample.pdfs[n].time
           THEN <<[n |-> n, kind |-> "time",
                   args |-> IF n = "signal" /\ has_var_time
                                THEN "evt,t0,sigma_t" ELSE "evt"]>>
           ELSE <<>>)

event_calls(sample, has_var_time) ==
    hypothesis_calls(sample, "signal", has_var_time)
    \o hypothesis_calls(sample, "background", has_var_time)

\* One iteration of "for evt in sample.events".
\* ll = locals()["nsignal"] is the array nsignal itself and "ll *= ..." works
\* in place, so the array bound to nsignal is what the previous events left;
\* nbackground is a float, so "ll *= ..." rebinds ll and leaves it alone.
event_step(sample, evt, nbackground, src, has_var_time, prev) ==
    LET fs == pdf_signal(sample, evt, src, has_var_time)
        ll_signal == Map(LAMBDA q : QMul(q, fs), prev.nsignal)
        ll_background == QMul(nbackground, pdf_background(sample, evt))
        l == Map(LAMBDA q : QAdd(q, ll_background), ll_signal)
    IN  [nsignal |-> ll_signal,
         loglkl |-> Broadcast(LAdd, prev.loglkl, Map(LLog, l))]

\* the loop "for evt in sample.events" after its first n iterations
RECURSIVE pointsource_events(_, _, _, _, _, _)
pointsource_events(sample, nbackground, src, has_var_time, init, n) ==
    IF n = 0 THEN init
    ELSE event_step(sample, sample.events.list[n], nbackground, src,
                    has_var_time,
                    pointsource_events(sample, nbackground, src, has_var_time,
                                       init, n - 1))

\* nsignal, nexpected and loglkl before the loop over the events
pointsource_begin(nobserved, nbackground, conv, var) ==
    LET nsignal == Map(LAMBDA q : QMul(conv, q), var)
        nexpected == Map(LAMBDA q : QAdd(nbackground, q), nsignal)
    IN  [nsignal |-> nsignal,
         loglkl |-> Map(LAMBDA e :
                            IF QPos(e)
                                THEN LAdd(LFin(QNeg(e), QOne),
                                          LNeg(gammaln1(nobserved)))
                                ELSE LNInf,
                        nexpected)]

\* mutant: the fallback drops the counting term nobserved * ln(nexpected)
pointsource_fallback_nocount(nobserved, nbackground, conv, var) ==
    pointsource_begin(nobserved, nbackground, conv, var).loglkl

\* if sample.events is None: return logpoisson_one_sample(...)
pointsource_fallback(nobserved, nbackground, conv, var) ==
    logpoisson_one_sample(nobserved, nbackground, conv, var)

logpointsource_one_sample(sample, nobserved, nbackground, conv, src, var, other_var) ==
    IF ~sample.events.present
        THEN pointsource_fallback(nobserved, nbackground, conv, var)
    ELSE pointsource_events(sample, nbackground, src,
                            has_var_time_of(other_var),
                            pointsource_begin(nobserved, nbackground, conv, var),
                            Len(sample.events.list)).loglkl

RECURSIVE pointsource_loglkl(_, _, _, _, _, _, _, _)
pointsource_loglkl(samples, nobserved, nbackground, conv, src, var, other_var, n) ==
    IF n = 0 THEN Map(LAMBDA q : LZero, var)
    ELSE Broadcast(LAdd,
                   pointsource_loglkl(samples, nobserved, nbackground, conv,
                                      src, var, other_var, n - 1),
                   logpointsource_one_sample(samples[n], nobserved[n],
                                             nbackground[n], conv[n], src,
                                             var, other_var))

pointsource_several_samples(samples, nobserved, nbackground, conv, src, var, other_var) ==
    LET n == Min(Min(Len(nobserved), Len(nbackground)),
                 Min(Len(conv), Len(samples)))
    IN  Map(VExp, pointsource_loglkl(samples, nobserved, nbackground, conv,
                                     src, var, other_var, n))

(***************************************************************************)
(* jang.stats (normalize, compute_upperlimit_from_x_y, PosteriorVariable)  *)
(* is not part of the sources at hand; these follow the specification,     *)
(* section 4.5, on arrays of rationals.                                    *)
(***************************************************************************)
RECURSIVE Pow10(_)
Pow10(k) ==
    IF k = 0 THEN QOne
    ELSE IF k > 0 THEN QMul(QInt(10), Pow10(k - 1))
    ELSE QDiv(Pow10(k + 1), QInt(10))

\* np.logspace(start, stop, num), for ranges whose exponents are integers
logspace(range) ==
    LET start == range[1]
        stop == range[2]
        num == range[3]
        step == IF num > 1 THEN (stop - start) \div (num - 1) ELSE 0
    IN  Arr([i \in 1..num |-> Pow10(start + (i - 1) * step)])

\* PosteriorVariable(name, range, nsamples, log=True).array
PosteriorVariable(name, range) == [name |-> name, array |-> logspace(range)]

\* cumulative trapezoidal integral of y over x up to index n (0 at index 1)
RECURSIVE cumtrapz(_, _, _)
cumtrapz(y, x, n) ==
    IF n <= 1 THEN QZero
    ELSE QAdd(cumtrapz(y, x, n - 1),
              QDiv(QMul(QSub(x[n], x[n - 1]), QAdd(y[n], y[n - 1])), QInt(2)))

trapz(y, x) == cumtrapz(y, x, Len(x))

\* jang.stats.normalize(x, y): divide the curve by its integral; a zero
\* integral is a numeric error
normalize(x, y) ==
    LET integral == trapz(y.v, x.v)
    IN  IF integral = QZero
            THEN [raised |-> TRUE, err |-> "ZeroDivisionError", x |-> x, y |-> y]
            ELSE [raised |-> FALSE, err |-> "none", x |-> x,
                  y |-> Map(LAMBDA q : QDiv(q, integral), y)]

\* credibility level of compute_upperlimit_from_x_y: 0.90
CL == <<9, 10>>

\* jang.stats.compute_upperlimit_from_x_y(x, y): the grid value at the first
\* index whose cumulative integral reaches CL; there is none to return when
\* no index reaches it
compute_upperlimit_from_x_y(xn, yn) ==
    LET reached == {i \in DOMAIN xn.v : QLeq(CL, cumtrapz(yn.v, xn.v, i))}
    IN  IF reached = {} THEN [raised |-> TRUE, err |-> "IndexError", value |-> QZero]
        ELSE LET idx == CHOOSE i \in reached : \A j \in reached : i <= j
             IN  [raised |-> FALSE, err |-> "none", value |-> xn.v[idx]]

(***************************************************************************)
(* numpy arrays of several dimensions, for the joint posterior over the    *)
(* primary variable (axis 1) and the nuisance variables (axes 2, 3, ...):  *)
(* a shape and a function from index tuples to values.                     *)
(***************************************************************************)
RECURSIVE MaxOf(_, _)
MaxOf(shape, n) ==
    IF n = 0 THEN 0
    ELSE LET m == MaxOf(shape, n - 1) IN IF shape[n] > m THEN shape[n] ELSE m

Indices(shape) ==
    {idx \in [1..Len(shape) -> 1..MaxOf(shape, Len(shape))] :
        \A a \in 1..Len(shape) : idx[a] <= shape[a]}

NdArray(shape, f) == [shape |-> shape, v |-> f]

\* np.delete(arr, -1, axis): drop the last entry along the axis
np_delete_last(arr, axis) ==
    LET shape == [arr.shape EXCEPT ![axis] = arr.shape[axis] - 1]
    IN  NdArray(shape, [idx \in Indices(shape) |-> arr.v[idx]])

\* np.diff(arr, axis): forward differences along the axis
np_diff(arr, axis) ==
    LET shape == [arr.shape EXCEPT ![axis] = arr.shape[axis] - 1]
    IN  NdArray(shape,
                [idx \in Indices(shape) |->
                    QSub(arr.v[[idx EXCEPT ![axis] = idx[axis] + 1]], arr.v[idx])])

\* a *= b for arrays of one shape
nd_multiply(a, b) == NdArray(a.shape, [idx \in Indices(a.shape) |-> QMul(a.v[idx], b.v[idx])])

RECURSIVE SumOver(_, _)
SumOver(f, S) ==
    IF S = {} THEN QZero
    ELSE LET e == CHOOSE e \in S : TRUE
         IN  QAdd(f[e], SumOver(f, S \ {e}))

\* np.sum(arr, axis=(1, ..., ndim - 1)) in numpy's 0-based axes: every axis
\* but the first is summed away; with no axis to sum the array is returned
np_sum_nuisance(arr) ==
    Arr([i \in 1..arr.shape[1] |->
            SumOver(arr.v, {idx \in Indices(arr.shape) : idx[1] = i})])

\* a nuisance variable: PosteriorVariable with its prior
NuisanceVariable(name, range, prior) ==
    [name |-> name, array |-> logspace(range), prior |-> prior]

\* var.prior(values): the prior density of the variable at a value
prior_value(var, q) == IF var.prior = "flat" THEN QOne ELSE q

\* x[var.name] as returned by the posterior computation: the grid of the
\* variable repeated along the other axes
grid_shape(variables) == [a \in 1..Len(variables) |-> Len(variables[a].array.v)]
meshgrid(variables, a) ==
    NdArray(grid_shape(variables),
            [idx \in Indices(grid_shape(variables)) |-> variables[a].array.v[idx[a]]])

(***************************************************************************)
(* Inputs: parameters, detector and toys.                                  *)
(***************************************************************************)
PriorTypes == {"flat", "jeffrey", "invsqrt", "log"}
LikelihoodMethods == {"poisson", "pointsource", "gaussian"}
PosteriorCalls ==
    {"compute_flux_posterior", "compute_etot_posterior", "compute_fnu_posterior"}
LimitCalls == {"get_limit_flux", "get_limit_etot", "get_limit_fnu"}

\* log10 ranges [min exponent, max exponent, count] of the parameters file
RangeFlux == <<2 - GridCount, 1, GridCount>>
RangeEtot == <<0, 1, 2>>
RangeFnu == <<-1, 0, 2>>

\* Parameters.__init__: the fields the core reads
Parameters(prior, likelihood) ==
    [prior_signal |-> prior, likelihood_method |-> likelihood, nside |-> NSide,
     range_flux |-> RangeFlux, range_etot |-> RangeEtot, range_fnu |-> RangeFnu]

\* configurations of one run: every prior with the Poisson family, and every
\* family name with the flat prior
ParameterSet ==
    {Parameters(p, "poisson") : p \in PriorTypes}
    \cup {Parameters("flat", l) : l \in LikelihoodMethods}

NoPdfs == [ang |-> FALSE, ene |-> FALSE, time |-> FALSE]
Event(a1, a2, tv, be) ==
    [sig_ang |-> <<a1, a2>>, sig_ene |-> QOne, sig_time |-> QOne,
     sig_time_var |-> tv, bkg_ang |-> QOne, bkg_ene |-> be, bkg_time |-> QOne]
Event1 == Event(QInt(2), Q(1, 2), Q(1, 2), Q(1, 2))
Event2 == Event(QInt(3), QOne, QOne, QOne)

\* a sample without event list, and samples carrying one or two events
SamplePlain == [events |-> [present |-> FALSE, list |-> <<>>],
                pdfs |-> [signal |-> NoPdfs, background |-> NoPdfs]]
SampleOneEvent ==
    [events |-> [present |-> TRUE, list |-> <<Event1>>],
     pdfs |-> [signal |-> [ang |-> TRUE, ene |-> FALSE, time |-> TRUE],
               background |-> [ang |-> TRUE, ene |-> TRUE, time |-> FALSE]]]
SampleTwoEvents ==
    [events |-> [present |-> TRUE, list |-> <<Event1, Event2>>],
     pdfs |-> [signal |-> [ang |-> TRUE, ene |-> TRUE, time |-> FALSE],
               background |-> [ang |-> FALSE, ene |-> TRUE, time |-> FALSE]]]

\* a detector: sample 1 is (n1, s1), every other sample is (n2, plain)
Detector(n1, s1, n2) ==
    [nobserved |-> [i \in 1..NSamples |-> IF i = 1 THEN n1 ELSE n2],
     samples |-> [i \in 1..NSamples |-> IF i = 1 THEN s1 ELSE SamplePlain]]

DetectorSet ==
    {Detector(0, SamplePlain, 0), Detector(1, SampleOneEvent, 0),
     Detector(2, SampleTwoEvents, 1)}

\* (background, conversion factor) of one sample in one toy
PairZero == <<QZero, QZero>>          \* insensitive sample, no background
PairPos == <<Q(1, 2), QOne>>
PairNeg == <<QOne, QInt(-1)>>         \* a conversion factor below 0

\* a toy: source direction of the GW draw, and per sample the background and
\* the conversion factor (ana.phi_to_nsig / etot_to_nsig / fnu_to_nsig of
\* the toy); sample 1 has the pair p, every other sample the pair q
Toy(src, p, q) ==
    [src |-> src,
     nbackground |-> [i \in 1..NSamples |-> IF i = 1 THEN p[1] ELSE q[1]],
     conv |-> [i \in 1..NSamples |-> IF i = 1 THEN p[2] ELSE q[2]]]

ToySet ==
    {Toy(2, PairPos, PairPos), Toy(1, PairPos, PairZero),
     Toy(1, PairZero, PairZero), Toy(1, PairNeg, PairPos)}

ToySeqs == UNION {[1..n -> ToySet] : n \in 0..MaxToys}

\* curves a posterior can return to the limit functions
CurveValues == {QZero, QOne, QInt(200)}
Curves(n) == [1..n -> CurveValues]

(***************************************************************************)
(* State.                                                                  *)
(***************************************************************************)
VARIABLES
    call,        \* the function that was called
    parameters,  \* its Parameters argument
    detector,    \* its detector argument: nobserved and samples
    toys,        \* ana.toys of the Analysis built from the arguments
    outfile,     \* the outfile argument of the limit functions (or "None")
    pc,          \* position in the called function
    x_arr,       \* compute_*_posterior: the grid
    post_arr,    \* compute_*_posterior: the accumulated posterior
    itoy,        \* compute_*_posterior: index of the next toy of the loop
    curve,       \* get_limit_*: the curve the posterior computation returned
    x,           \* get_limit_*: local x
    y,           \* get_limit_*: local y
    limit,       \* get_limit_*: local limit, once computed
    files,       \* what the limit function has written
    logged,      \* limits written to the "jang" logger
    err,         \* the exception that ended the call, or "none"
    other_var,   \* pointsource_several_samples: the other_var argument
    isample,     \* pointsource_several_samples: index of the next sample
    ievt,        \* logpointsource_one_sample: index of the next event
    nsignal,     \* logpointsource_one_sample: the array bound to nsignal
    loglkl_one,  \* logpointsource_one_sample: local loglkl
    loglkl,      \* pointsource_several_samples: local loglkl
    pdf_calls,   \* density calls made for the event processed last
    likelihood,  \* pointsource_several_samples: the value returned
    other_variables, \* get_limit_flux_with_othervars: the nuisance variables
    D,           \* get_limit_flux_with_othervars: the grid differences
    X,           \* get_limit_flux_with_othervars: primary grid, normalized
    Y,           \* get_limit_flux_with_othervars: the marginal curve
    region,      \* get_limitmap_flux: pixels of the search region
    iregion,     \* get_limitmap_flux: index of the next pixel of the loop
    limits,      \* get_limitmap_flux: the map of limits
    pixel_curves \* get_limitmap_flux: curve returned for each pixel so far

lklvars == <<other_var, isample, ievt, nsignal, loglkl_one, loglkl, pdf_calls,
             likelihood>>
margvars == <<other_variables, D, X, Y>>
mapvars == <<region, iregion, limits, pixel_curves>>
extvars == <<lklvars, margvars, mapvars>>

vars == <<call, parameters, detector, toys, outfile, pc, x_arr, post_arr, itoy,
          curve, x, y, limit, files, logged, err, extvars>>

NoArr == Arr(<<>>)
NoLimit == [set |-> FALSE, value |-> QZero]
NoFiles == [dir |-> FALSE, npy |-> <<>>, png |-> FALSE]

\* the locals of a function that is not running
LklIdle ==
    /\ other_var = NoOtherVar
    /\ isample = 0
    /\ ievt = 0
    /\ nsignal = NoArr
    /\ loglkl_one = NoArr
    /\ loglkl = NoArr
    /\ pdf_calls = <<>>
    /\ likelihood = NoArr

MargIdle ==
    /\ other_variables = <<>>
    /\ D = <<>>
    /\ X = NoArr
    /\ Y = NoArr

MapIdle ==
    /\ region = <<>>
    /\ iregion = 0
    /\ limits = <<>>
    /\ pixel_curves = <<>>

Init ==
    /\ LklIdle /\ MargIdle /\ MapIdle
    /\ call \in PosteriorCalls \cup LimitCalls
    /\ parameters \in ParameterSet
    /\ detector \in DetectorSet
    /\ toys \in ToySeqs
    /\ outfile \in {"None", "out/flux"}
    /\ call \in PosteriorCalls => outfile = "None"
    /\ call \in LimitCalls =>
          /\ toys = <<>>
          /\ detector = Detector(0, SamplePlain, 0)
          /\ parameters = Parameters("flat", "poisson")
    /\ pc = "call"
    /\ x_arr = NoArr
    /\ post_arr = NoArr
    /\ itoy = 0
    /\ curve = NoArr
    /\ x = NoArr
    /\ y = NoArr
    /\ limit = NoLimit
    /\ files = NoFiles
    /\ logged = <<>>
    /\ err = "none"

(***************************************************************************)
(* jang/stats/posteriors.py: compute_flux_posterior,                       *)
(* compute_etot_posterior, compute_fnu_posterior.  The three differ in the *)
(* range of the grid and in the conversion function of the Analysis, whose *)
(* result is the toy's conv.                                               *)
(***************************************************************************)
range_of(name, pars) ==
    IF name \in {"compute_flux_posterior", "get_limit_flux"} THEN pars.range_flux
    ELSE IF name \in {"compute_etot_posterior", "get_limit_etot"}
        THEN pars.range_etot
    ELSE pars.range_fnu

\* the summand of one toy: likelihood times prior weight
toy_term(det, toy, var, pars) ==
    LET lkl == poisson_several_samples(det.nobserved, toy.nbackground,
                                       toy.conv, var)
        prior == signal_parameter(var, toy.nbackground, toy.conv,
                                  pars.prior_signal)
    IN  IF prior.raised THEN prior
        ELSE Returned(Broadcast(VMul, lkl, prior.val))

\* mutant: post_arr = term
accumulate_overwrite(post, term) == term

\* post_arr += term
accumulate(post, term) == Broadcast(VAdd, post, term)

PosteriorBegin ==
    /\ pc = "call"
    /\ call \in PosteriorCalls
    /\ x_arr' = logspace(range_of(call, parameters))
    /\ post_arr' = zeros_like(x_arr')
    /\ itoy' = 1
    /\ pc' = "loop"
    /\ UNCHANGED extvars
    /\ UNCHANGED <<call, parameters, detector, toys, outfile, curve, x, y,
                   limit, files, logged, err>>

PosteriorToy ==
    /\ pc = "loop"
    /\ itoy <= Len(toys)
    /\ LET term == toy_term(detector, toys[itoy], x_arr, parameters)
       IN  IF term.raised
               THEN /\ pc' = "raised"
                    /\ err' = term.err
                    /\ UNCHANGED <<post_arr, itoy>>
               ELSE /\ post_arr' = accumulate(post_arr, term.val)
                    /\ itoy' = itoy + 1
                    /\ UNCHANGED <<pc, err>>
    /\ UNCHANGED extvars
    /\ UNCHANGED <<call, parameters, detector, toys, outfile, x_arr, curve, x,
                   y, limit, files, logged>>

PosteriorReturn ==
    /\ pc = "loop"
    /\ itoy > Len(toys)
    /\ pc' = "returned"
    /\ UNCHANGED extvars
    /\ UNCHANGED <<call, parameters, detector, toys, outfile, x_arr, post_arr,
                   itoy, curve, x, y, limit, files, logged, err>>

(***************************************************************************)
(* src/src/jang/limits.py: get_limit_flux, get_limit_etot, get_limit_fnu.  *)
(* They call the posterior computation with a list of PosteriorVariable;   *)
(* that variant of the computation is not part of the sources at hand, so  *)
(* the curve it returns is an input: any non-negative curve on the grid of *)
(* the variable.                                                           *)
(***************************************************************************)
variable_name(name) ==
    IF name = "get_limit_flux" THEN "flux"
    ELSE IF name = "get_limit_etot" THEN "etot" ELSE "fnu"

\* variables = [PosteriorVariable(name, range[0:2], range[2], log=True)]
limit_variables(name, pars) ==
    <<PosteriorVariable(variable_name(name), range_of(name, pars))>>

\* mutant: the curve is handed on without being normalized
normalize_step_skipped(xs, ys) ==
    [raised |-> FALSE, err |-> "none", x |-> xs[1], y |-> ys]

\* x, y = jang.stats.normalize(x[0], y)
normalize_step(xs, ys) == normalize(xs[1], ys)

\* limit = jang.stats.compute_upperlimit_from_x_y(x, y)
upperlimit_step(xn, yn) == compute_upperlimit_from_x_y(xn, yn)

\* mutant: the failure of a callee is swallowed
after_call_continue(r, next) == next

\* an exception of a callee is not caught: the limit function ends with it,
\* and goes on to its next statement otherwise
after_call(r, next) == IF r.raised THEN "raised" ELSE next

LimitPosterior ==
    /\ pc = "call"
    /\ call \in LimitCalls
    /\ LET variables == limit_variables(call, parameters)
       IN  /\ x' = <<variables[1].array>>
           /\ \E c \in Curves(Len(variables[1].array.v)) :
                  /\ y' = Arr(c)
                  /\ curve' = Arr(c)
    /\ pc' = "normalize"
    /\ UNCHANGED extvars
    /\ UNCHANGED <<call, parameters, detector, toys, outfile, x_arr, post_arr,
                   itoy, limit, files, logged, err>>

LimitNormalize ==
    /\ pc = "normalize"
    /\ LET r == normalize_step(x, y)
       IN  /\ pc' = after_call(r, "upperlimit")
           /\ err' = r.err
           /\ IF r.raised THEN UNCHANGED <<x, y>>
              ELSE x' = r.x /\ y' = r.y
    /\ UNCHANGED extvars
    /\ UNCHANGED <<call, parameters, detector, toys, outfile, x_arr, post_arr,
                   itoy, curve, limit, files, logged>>

should_save_always(file) == TRUE

\* if outfile is not None
should_save(file) == file # "None"

LimitUpperLimit ==
    /\ pc = "upperlimit"
    /\ LET r == upperlimit_step(x, y)
       IN  /\ pc' = after_call(r, IF should_save(outfile) THEN "save" ELSE "log")
           /\ err' = r.err
           /\ limit' = IF r.raised THEN limit
                       ELSE [set |-> TRUE, value |-> r.value]
    /\ UNCHANGED extvars
    /\ UNCHANGED <<call, parameters, detector, toys, outfile, x_arr, post_arr,
                   itoy, curve, x, y, files, logged>>

\* os.makedirs, np.save(outfile + ".npy", [x, y]), plot_posterior(.. ".png")
LimitSave ==
    /\ pc = "save"
    /\ files' = [dir |-> TRUE, npy |-> <<x, y>>, png |-> TRUE]
    /\ pc' = "log"
    /\ UNCHANGED extvars
    /\ UNCHANGED <<call, parameters, detector, toys, outfile, x_arr, post_arr,
                   itoy, curve, x, y, limit, logged, err>>

\* logging.getLogger("jang").info(..., limit); return limit
LimitLogReturn ==
    /\ pc = "log"
    /\ logged' = Append(logged, limit.value)
    /\ pc' = "returned"
    /\ UNCHANGED extvars
    /\ UNCHANGED <<call, parameters, detector, toys, outfile, x_arr, post_arr,
                   itoy, curve, x, y, limit, files, err>>

Next ==
    \/ PosteriorBegin
    \/ PosteriorToy
    \/ PosteriorReturn
    \/ LimitPosterior
    \/ LimitNormalize
    \/ LimitUpperLimit
    \/ LimitSave
    \/ LimitLogReturn

Spec == Init /\ [][Next]_vars

(***************************************************************************)
(* src/src/jang/limits.py: get_limit_flux_with_othervars.  The posterior   *)
(* computation over several variables is not part of the sources at hand:  *)
(* what it returns, the grids x[name] and a joint array y over them, is an *)
(* input.                                                                  *)
(***************************************************************************)
\* nuisance variables a caller can pass; the keys of a dict are distinct
T0Variables ==
    {NuisanceVariable("t0", <<0, 0, 1>>, "flat"),
     NuisanceVariable("t0", <<0, 1, 2>>, "flat"),
     NuisanceVariable("t0", <<-1, 1, 3>>, "value")}
SigmaVariables ==
    {NuisanceVariable("sigma_t", <<0, 1, 2>>, "flat"),
     NuisanceVariable("sigma_t", <<2 - GridCount, 1, GridCount>>, "flat")}
OtherVariables ==
    {<<>>} \cup {<<a>> : a \in T0Variables}
    \cup {<<a, b>> : a \in T0Variables, b \in SigmaVariables}

\* joint posteriors over the grid of the variables
JointPatterns == {"ones", "index", "first", "last", "zero"}
joint_value(pattern, shape, idx) ==
    LET nuisance == 2..Len(shape) IN
    IF pattern = "ones" THEN QOne
    ELSE IF pattern = "index"
        THEN SumOver([a \in 1..Len(shape) |-> QInt(idx[a])], 1..Len(shape))
    ELSE IF pattern = "first"
        THEN IF \A a \in nuisance : idx[a] = 1 THEN QInt(idx[1]) ELSE QZero
    ELSE IF pattern = "last"
        THEN IF \A a \in nuisance : idx[a] = shape[a] THEN QOne ELSE QZero
    ELSE QZero
joint_posterior(variables, pattern) ==
    NdArray(grid_shape(variables),
            [idx \in Indices(grid_shape(variables)) |->
                joint_value(pattern, grid_shape(variables), idx)])

\* variables = [PosteriorVariable("flux", parameters.range_fnu[0:2],
\*                                parameters.range_fnu[2], log=True)]
\*             + other_variables
othervars_variables(pars, others) ==
    <<[name |-> "flux", array |-> logspace(pars.range_fnu), prior |-> "flat"]>>
    \o others

\* the dict x of the posterior computation
grids_of(variables) ==
    [nm \in {variables[a].name : a \in 1..Len(variables)} |->
        meshgrid(variables, CHOOSE a \in 1..Len(variables) : variables[a].name = nm)]

\* for var in variables[1:]: y *= var.prior(x[var.name]), up to variable n
RECURSIVE apply_priors(_, _, _, _)
apply_priors(variables, xd, yj, n) ==
    IF n <= 1 THEN yj
    ELSE LET g == xd[variables[n].name]
         IN  nd_multiply(apply_priors(variables, xd, yj, n - 1),
                         NdArray(g.shape,
                                 [idx \in Indices(g.shape) |->
                                     prior_value(variables[n], g.v[idx])]))

\* for aa in np.arange(1, len(variables)): if aa != a: np.delete(.., -1, aa)
RECURSIVE delete_others(_, _, _)
delete_others(arr, a, aa) ==
    IF aa < 2 THEN arr
    ELSE LET prev == delete_others(arr, a, aa - 1)
         IN  IF aa # a THEN np_delete_last(prev, aa) ELSE prev

\* mutant: the differences are paired with the right ends of the intervals
reduced_first(yj, n) ==
    LET shape == [a \in 1..Len(yj.shape) |->
                     IF a >= 2 /\ a <= n THEN yj.shape[a] - 1 ELSE yj.shape[a]]
    IN  NdArray(shape,
                [idx \in Indices(shape) |->
                    yj.v[[a \in 1..Len(shape) |->
                             IF a >= 2 /\ a <= n THEN idx[a] + 1 ELSE idx[a]]]])

\* Y = np.delete(Y, -1, axis=a) for the axes a = 2..n
RECURSIVE reduced(_, _)
reduced(yj, n) ==
    IF n < 2 THEN yj ELSE np_delete_last(reduced(yj, n - 1), n)

\* D[var.name] for every nuisance variable
deltas(variables, xd) ==
    [nm \in {variables[a].name : a \in 2..Len(variables)} |->
        LET a == CHOOSE a \in 2..Len(variables) : variables[a].name = nm
        IN  np_diff(delete_others(xd[nm], a, Len(variables)), a)]

\* for d in D.values(): Y *= d
RECURSIVE times_deltas(_, _, _)
times_deltas(yr, d, names) ==
    IF names = {} THEN yr
    ELSE LET nm == CHOOSE nm \in names : TRUE
         IN  nd_multiply(times_deltas(yr, d, names \ {nm}), d[nm])

\* Y after the marginalization over the nuisance variables
marginal(variables, d, yj) ==
    np_sum_nuisance(times_deltas(reduced(yj, Len(variables)), d, DOMAIN d))

MargInit ==
    /\ call = "get_limit_flux_with_othervars"
    /\ parameters = Parameters("flat", "poisson")
    /\ detector = Detector(0, SamplePlain, 0)
    /\ toys = <<>>
    /\ other_variables \in OtherVariables
    /\ outfile \in {"None", "out/flux"}
    /\ pc = "call"
    /\ x_arr = NoArr
    /\ post_arr = NoArr
    /\ itoy = 0
    /\ curve = NoArr
    /\ x = NoArr
    /\ y = NoArr
    /\ limit = NoLimit
    /\ files = NoFiles
    /\ logged = <<>>
    /\ err = "none"
    /\ D = <<>>
    /\ X = NoArr
    /\ Y = NoArr
    /\ LklIdle /\ MapIdle

\* variables = ...; x, y = compute_flux_posterior(variables, ...)
MargPosterior ==
    /\ pc = "call"
    /\ call = "get_limit_flux_with_othervars"
    /\ LET variables == othervars_variables(parameters, other_variables)
       IN  /\ x' = grids_of(variables)
           /\ \E pattern \in JointPatterns :
                  /\ y' = joint_posterior(variables, pattern)
                  /\ curve' = y'
    /\ pc' = "priors"
    /\ UNCHANGED <<call, parameters, detector, toys, outfile, x_arr, post_arr,
                   itoy, limit, files, logged, err>>
    /\ UNCHANGED <<lklvars, other_variables, D, X, Y, mapvars>>

\* for var in variables[1:]: y *= var.prior(x[var.name])
MargPriors ==
    /\ pc = "priors"
    /\ LET variables == othervars_variables(parameters, other_variables)
       IN  y' = apply_priors(variables, x, y, Len(variables))
    /\ pc' = "marginalize"
    /\ UNCHANGED <<call, parameters, detector, toys, outfile, x_arr, post_arr,
                   itoy, curve, x, limit, files, logged, err>>
    /\ UNCHANGED <<lklvars, other_variables, D, X, Y, mapvars>>

\* D = {}; Y = copy.copy(y); the loops over the variables and over D;
\* Y = np.sum(Y, axis=...)
MargMarginalize ==
    /\ pc = "marginalize"
    /\ LET variables == othervars_variables(parameters, other_variables)
       IN  /\ D' = deltas(variables, x)
           /\ Y' = marginal(variables, D', y)
    /\ pc' = "normalize"
    /\ UNCHANGED <<call, parameters, detector, toys, outfile, x_arr, post_arr,
                   itoy, curve, x, y, limit, files, logged, err>>
    /\ UNCHANGED <<lklvars, other_variables, X, mapvars>>

\* X, Y = jang.stats.normalize(variables[0].array, Y)
MargNormalize ==
    /\ pc = "normalize"
    /\ call = "get_limit_flux_with_othervars"
    /\ LET variables == othervars_variables(parameters, other_variables)
           r == normalize(variables[1].array, Y)
       IN  /\ pc' = after_call(r, "upperlimit")
           /\ err' = r.err
           /\ IF r.raised THEN UNCHANGED <<X, Y>>
              ELSE X' = r.x /\ Y' = r.y
    /\ UNCHANGED <<call, parameters, detector, toys, outfile, x_arr, post_arr,
                   itoy, curve, x, y, limit, files, logged>>
    /\ UNCHANGED <<lklvars, other_variables, D, mapvars>>

\* limit = jang.stats.compute_upperlimit_from_x_y(X, Y)
MargUpperLimit ==
    /\ pc = "upperlimit"
    /\ call = "get_limit_flux_with_othervars"
    /\ LET r == upperlimit_step(X, Y)
       IN  /\ pc' = after_call(r, IF outfile # "None" THEN "save" ELSE "log")
           /\ err' = r.err
           /\ limit' = IF r.raised THEN limit
                       ELSE [set |-> TRUE, value |-> r.value]
    /\ UNCHANGED <<call, parameters, detector, toys, outfile, x_arr, post_arr,
                   itoy, curve, x, y, files, logged>>
    /\ UNCHANGED <<lklvars, margvars, mapvars>>

\* os.makedirs, np.save(outfile + ".npy", [*x.values(), y]),
\* plot_posterior(X, Y, limit, ..., outfile + ".png")
MargSave ==
    /\ pc = "save"
    /\ call = "get_limit_flux_with_othervars"
    /\ LET variables == othervars_variables(parameters, other_variables)
       IN  files' = [dir |-> TRUE,
                     npy |-> [a \in 1..Len(variables) |-> x[variables[a].name]]
                             \o <<y>>,
                     png |-> TRUE]
    /\ pc' = "log"
    /\ UNCHANGED <<call, parameters, detector, toys, outfile, x_arr, post_arr,
                   itoy, curve, x, y, limit, logged, err>>
    /\ UNCHANGED <<lklvars, margvars, mapvars>>

\* logging.getLogger("jang").info(..., limit); return limit
MargLogReturn ==
    /\ pc = "log"
    /\ call = "get_limit_flux_with_othervars"
    /\ logged' = Append(logged, limit.value)
    /\ pc' = "returned"
    /\ UNCHANGED <<call, parameters, detector, toys, outfile, x_arr, post_arr,
                   itoy, curve, x, y, limit, files, err>>
    /\ UNCHANGED <<lklvars, margvars, mapvars>>

MargNext ==
    \/ MargPosterior
    \/ MargPriors
    \/ MargMarginalize
    \/ MargNormalize
    \/ MargUpperLimit
    \/ MargSave
    \/ MargLogReturn

SpecMarg == MargInit /\ [][MargNext]_vars

(***************************************************************************)
(* src/src/jang/limits.py: get_limitmap_flux.  The search region and the   *)
(* posterior with the GW position fixed to a pixel are inputs: a list of   *)
(* distinct pixels of the map and, for each pixel, a curve on the flux     *)
(* grid.                                                                   *)
(***************************************************************************)
\* hp.nside2npix(nside)
nside2npix(nside) == 12 * nside * nside

RegionPixels(npix) == {0, 5, npix - 1}
Regions(npix) ==
    {<<>>} \cup {<<p>> : p \in RegionPixels(npix)}
    \cup {s \in RegionPixels(npix) \X RegionPixels(npix) : s[1] # s[2]}

\* curves the posterior of one pixel can be
PixelCurves(n) ==
    {c \in Curves(n) : c[1] = QOne} \cup {[i \in 1..n |-> QZero]}

\* limits = np.nan * np.ones(hp.nside2npix(parameters.nside))
nan_map(npix) == [p \in 0..(npix - 1) |-> NaN]

\* mutant: the limit is stored at the position of the pixel in the region
assign_limit_by_position(map, ipix, position, value) ==
    [map EXCEPT ![position - 1] = Fin(value)]

\* limits[ipix] = ...
assign_limit(map, ipix, position, value) == [map EXCEPT ![ipix] = Fin(value)]

all_nan(map) == \A p \in DOMAIN map : map[p] = NaN

MapInit ==
    /\ call = "get_limitmap_flux"
    /\ parameters = Parameters("flat", "poisson")
    /\ detector = Detector(0, SamplePlain, 0)
    /\ toys = <<>>
    /\ region \in Regions(nside2npix(parameters.nside))
    /\ outfile \in {"None", "out/map"}
    /\ pc = "call"
    /\ x_arr = NoArr
    /\ post_arr = NoArr
    /\ itoy = 0
    /\ curve = NoArr
    /\ x = NoArr
    /\ y = NoArr
    /\ limit = NoLimit
    /\ files = NoFiles
    /\ logged = <<>>
    /\ err = "none"
    /\ iregion = 0
    /\ limits = <<>>
    /\ pixel_curves = <<>>
    /\ LklIdle /\ MargIdle

\* variables = ...; region = get_search_region(...); limits = nan * ones(npix)
MapBegin ==
    /\ pc = "call"
    /\ call = "get_limitmap_flux"
    /\ limits' = nan_map(nside2npix(parameters.nside))
    /\ iregion' = 1
    /\ pc' = "pixels"
    /\ UNCHANGED <<call, parameters, detector, toys, outfile, x_arr, post_arr,
                   itoy, curve, x, y, limit, files, logged, err>>
    /\ UNCHANGED <<lklvars, margvars, region, pixel_curves>>

\* one iteration of "for ipix in region": the posterior with the GW position
\* fixed to the pixel, its normalization, and the limit stored in the map
MapPixel ==
    /\ pc = "pixels"
    /\ iregion <= Len(region)
    /\ LET variables == <<PosteriorVariable("flux", parameters.range_flux)>>
           ipix == region[iregion]
       IN  \E c \in PixelCurves(Len(variables[1].array.v)) :
               LET n == normalize_step(<<variables[1].array>>, Arr(c))
                   u == IF n.raised THEN n ELSE upperlimit_step(n.x, n.y)
               IN  /\ curve' = Arr(c)
                   /\ pixel_curves' = Append(pixel_curves, [ipix |-> ipix, y |-> Arr(c)])
                   /\ pc' = after_call(u, "pixels")
                   /\ err' = u.err
                   /\ IF u.raised
                          THEN UNCHANGED <<x, y, limits, iregion>>
                          ELSE /\ x' = n.x
                               /\ y' = n.y
                               /\ limits' = assign_limit(limits, ipix, iregion, u.value)
                               /\ iregion' = iregion + 1
    /\ UNCHANGED <<call, parameters, detector, toys, outfile, x_arr, post_arr,
                   itoy, limit, files, logged>>
    /\ UNCHANGED <<lklvars, margvars, region>>

\* if outfile is not None: os.makedirs, np.save(outfile + ".npy", limits) and
\* the plot, whose axis range is read from f"{np.nanmin(limits):.3e}"
\* .split("e")[1]: for a map that is NaN everywhere the string is "nan" and
\* there is no second part
MapSave ==
    /\ pc = "pixels"
    /\ iregion > Len(region)
    /\ outfile # "None"
    /\ IF all_nan(limits)
           THEN /\ files' = [dir |-> TRUE, npy |-> limits, png |-> FALSE]
                /\ pc' = "raised"
                /\ err' = "IndexError"
           ELSE /\ files' = [dir |-> TRUE, npy |-> limits, png |-> TRUE]
                /\ pc' = "return"
                /\ UNCHANGED err
    /\ UNCHANGED <<call, parameters, detector, toys, outfile, x_arr, post_arr,
                   itoy, curve, x, y, limit, logged>>
    /\ UNCHANGED <<lklvars, margvars, mapvars>>

\* return limits
MapReturn ==
    /\ \/ pc = "return"
       \/ pc = "pixels" /\ iregion > Len(region) /\ outfile = "None"
    /\ call = "get_limitmap_flux"
    /\ pc' = "returned"
    /\ UNCHANGED <<call, parameters, detector, toys, outfile, x_arr, post_arr,
                   itoy, curve, x, y, limit, files, logged, err>>
    /\ UNCHANGED <<lklvars, margvars, mapvars>>

MapNext ==
    \/ MapBegin
    \/ MapPixel
    \/ MapSave
    \/ MapReturn

SpecMap == MapInit /\ [][MapNext]_vars

(***************************************************************************)
(* jang/stats/likelihoods.py: pointsource_several_samples and              *)
(* logpointsource_one_sample, step by step.  The arguments are the samples *)
(* and observed counts of a detector, the background, conversion factors   *)
(* and source direction of one toy, the grid, and other_var.               *)
(***************************************************************************)
OtherVars ==
    {NoOtherVar} \cup
    {[present |-> TRUE, keys |-> k] : k \in SUBSET {"t0", "sigma_t"}}

AllPdfs == [ang |-> TRUE, ene |-> TRUE, time |-> TRUE]
Event3 ==
    [sig_ang |-> <<Q(1, 2), QInt(2)>>, sig_ene |-> QInt(3),
     sig_time |-> Q(1, 3), sig_time_var |-> QInt(2),
     bkg_ang |-> Q(1, 2), bkg_ene |-> QInt(2), bkg_time |-> QInt(3)]

\* no event list, but densities attached
SamplePlainPdfs == [events |-> [present |-> FALSE, list |-> <<>>],
                    pdfs |-> [signal |-> AllPdfs, background |-> AllPdfs]]
SampleAllPdfs == [events |-> [present |-> TRUE, list |-> <<Event3>>],
                  pdfs |-> [signal |-> AllPdfs, background |-> AllPdfs]]
\* an event list that is empty
SampleEmptyList == [events |-> [present |-> TRUE, list |-> <<>>],
                    pdfs |-> [signal |-> AllPdfs, background |-> AllPdfs]]

LklDetectorSet ==
    {Detector(0, SamplePlain, 0), Detector(1, SamplePlainPdfs, 1),
     Detector(1, SampleOneEvent, 0), Detector(1, SampleAllPdfs, 1),
     Detector(2, SampleTwoEvents, 1), Detector(1, SampleEmptyList, 0)}

LklInit ==
    /\ call = "pointsource_several_samples"
    /\ parameters = Parameters("flat", "pointsource")
    /\ detector \in LklDetectorSet
    /\ toys \in [1..1 -> ToySet]
    /\ other_var \in OtherVars
    /\ x_arr = logspace(RangeFlux)
    /\ outfile = "None"
    /\ pc = "call"
    /\ post_arr = NoArr
    /\ itoy = 0
    /\ curve = NoArr
    /\ x = NoArr
    /\ y = NoArr
    /\ limit = NoLimit
    /\ files = NoFiles
    /\ logged = <<>>
    /\ err = "none"
    /\ isample = 0
    /\ ievt = 0
    /\ nsignal = NoArr
    /\ loglkl_one = NoArr
    /\ loglkl = NoArr
    /\ pdf_calls = <<>>
    /\ likelihood = NoArr
    /\ MargIdle /\ MapIdle

\* number of iterations of zip(nobserved, nbackground, conv, samples)
zip_length(det, toy) ==
    Min(Min(Len(det.nobserved), Len(toy.nbackground)),
        Min(Len(toy.conv), Len(det.samples)))

\* loglkl = np.zeros_like(var)
LklBegin ==
    /\ pc = "call"
    /\ call = "pointsource_several_samples"
    /\ loglkl' = Map(LAMBDA q : LZero, x_arr)
    /\ isample' = 1
    /\ pc' = "samples"
    /\ UNCHANGED <<call, parameters, detector, toys, outfile, x_arr, post_arr,
                   itoy, curve, x, y, limit, files, logged, err>>
    /\ UNCHANGED <<other_var, ievt, nsignal, loglkl_one, pdf_calls, likelihood>>
    /\ UNCHANGED <<margvars, mapvars>>

\* logpointsource_one_sample is entered for the next sample: without an
\* event list it returns at once and the caller adds the result; with one it
\* computes nsignal, nexpected, loglkl and has_var_time
LklSample ==
    /\ pc = "samples"
    /\ isample <= zip_length(detector, toys[1])
    /\ LET s == detector.samples[isample]
           n_obs == detector.nobserved[isample]
           n_bkg == toys[1].nbackground[isample]
           cv == toys[1].conv[isample]
       IN  IF ~s.events.present
               THEN /\ loglkl_one' = pointsource_fallback(n_obs, n_bkg, cv, x_arr)
                    /\ loglkl' = Broadcast(LAdd, loglkl, loglkl_one')
                    /\ isample' = isample + 1
                    /\ UNCHANGED <<pc, ievt, nsignal>>
               ELSE LET b == pointsource_begin(n_obs, n_bkg, cv, x_arr)
                    IN  /\ nsignal' = b.nsignal
                        /\ loglkl_one' = b.loglkl
                        /\ ievt' = 1
                        /\ pc' = "events"
                        /\ UNCHANGED <<loglkl, isample>>
    /\ pdf_calls' = <<>>
    /\ UNCHANGED <<call, parameters, detector, toys, outfile, x_arr, post_arr,
                   itoy, curve, x, y, limit, files, logged, err>>
    /\ UNCHANGED <<other_var, likelihood>>
    /\ UNCHANGED <<margvars, mapvars>>

\* one iteration of "for evt in sample.events"
LklEvent ==
    /\ pc = "events"
    /\ ievt <= Len(detector.samples[isample].events.list)
    /\ LET s == detector.samples[isample]
           n_bkg == toys[1].nbackground[isample]
           cv == toys[1].conv[isample]
           has_var_time == has_var_time_of(other_var)
           r == event_step(s, s.events.list[ievt], n_bkg, toys[1].src,
                           has_var_time,
                           [nsignal |-> nsignal, loglkl |-> loglkl_one])
       IN  /\ nsignal' = r.nsignal
           /\ loglkl_one' = r.loglkl
           /\ pdf_calls' = event_calls(s, has_var_time)
    /\ ievt' = ievt + 1
    /\ UNCHANGED <<call, parameters, detector, toys, outfile, pc, x_arr,
                   post_arr, itoy, curve, x, y, limit, files, logged, err>>
    /\ UNCHANGED <<other_var, isample, loglkl, likelihood>>
    /\ UNCHANGED <<margvars, mapvars>>

\* return loglkl of logpointsource_one_sample; the caller adds it
LklSampleReturn ==
    /\ pc = "events"
    /\ ievt > Len(detector.samples[isample].events.list)
    /\ loglkl' = Broadcast(LAdd, loglkl, loglkl_one)
    /\ isample' = isample + 1
    /\ pc' = "samples"
    /\ UNCHANGED <<call, parameters, detector, toys, outfile, x_arr, post_arr,
                   itoy, curve, x, y, limit, files, logged, err>>
    /\ UNCHANGED <<other_var, ievt, nsignal, loglkl_one, pdf_calls, likelihood>>
    /\ UNCHANGED <<margvars, mapvars>>

\* return np.exp(loglkl)
LklReturn ==
    /\ pc = "samples"
    /\ isample > zip_length(detector, toys[1])
    /\ likelihood' = Map(VExp, loglkl)
    /\ pc' = "returned"
    /\ UNCHANGED <<call, parameters, detector, toys, outfile, x_arr, post_arr,
                   itoy, curve, x, y, limit, files, logged, err>>
    /\ UNCHANGED <<other_var, isample, ievt, nsignal, loglkl_one, loglkl,
                   pdf_calls>>
    /\ UNCHANGED <<margvars, mapvars>>

LklNext ==
    \/ LklBegin
    \/ LklSample
    \/ LklEvent
    \/ LklSampleReturn
    \/ LklReturn

SpecLkl == LklInit /\ [][LklNext]_vars

(***************************************************************************)
(* Helpers of the properties.                                              *)
(***************************************************************************)
KnownPriors == {"flat", "jeffrey", "invsqrt"}
KnownLikelihoods == {"poisson", "pointsource"}

InPosterior == call \in PosteriorCalls /\ pc # "call"
InLimit == call \in LimitCalls /\ pc # "call"

\* the toys the loop has processed so far
Processed == IF InPosterior THEN 1..(itoy - 1) ELSE {}

\* the toy the loop has just processed
JustProcessed == IF InPosterior /\ pc = "loop" /\ itoy >= 2 THEN {itoy - 1} ELSE {}

\* the value of a broadcastable result at grid index j
At(a, j) == IF a.sh = "arr" THEN a.v[j] ELSE a.v

IsGridArray(a, var) == a.sh = "arr" /\ DOMAIN a.v = DOMAIN var.v

\* expected count of sample i of a toy at grid index j
Expected(toy, i, j) == QAdd(QMul(toy.conv[i], x_arr.v[j]), toy.nbackground[i])

PhysicalToy(toy) ==
    \A i \in 1..NSamples :
        QLeq(QZero, toy.conv[i]) /\ QLeq(QZero, toy.nbackground[i])

(***************************************************************************)
(* C1: signal_parameter called with a prior type other than "flat",        *)
(* "jeffrey" or "invsqrt" raises RuntimeError and returns no weighting     *)
(* array, whatever the grid, backgrounds and conversion factors; the       *)
(* posterior loop that called it ends with that error, its accumulator     *)
(* untouched by the toy, and never returns a curve.                        *)
(***************************************************************************)
C1_UnknownPriorRaises ==
    (InPosterior /\ parameters.prior_signal \notin KnownPriors) =>
        /\ \A t \in DOMAIN toys :
              LET r == signal_parameter(x_arr, toys[t].nbackground,
                                        toys[t].conv, parameters.prior_signal)
              IN  r.raised /\ r.err = "RuntimeError"
        /\ Processed = {}
        /\ post_arr = zeros_like(x_arr)
        /\ (toys # <<>> => pc # "returned")
        /\ (pc = "raised" => err = "RuntimeError")

C1_Witness ==
    /\ InPosterior
    /\ parameters.prior_signal = "log"
    /\ pc = "raised"
    /\ err = "RuntimeError"
    /\ toys # <<>>
    /\ PhysicalToy(toys[1])

(***************************************************************************)
(* C2: compute_flux_posterior, compute_etot_posterior and                  *)
(* compute_fnu_posterior raise a configuration error, and return no        *)
(* (grid, curve), when parameters.likelihood_method is neither "poisson"   *)
(* nor "pointsource".                                                      *)
(***************************************************************************)
C2_UnknownLikelihoodRaises ==
    (call \in PosteriorCalls
     /\ parameters.likelihood_method \notin KnownLikelihoods) =>
        pc \notin {"loop", "returned"}

(***************************************************************************)
(* C3: the curve compute_*_posterior returns is built from the likelihood  *)
(* family parameters.likelihood_method names: the multi-sample Poisson     *)
(* likelihood for "poisson", pointsource_several_samples for               *)
(* "pointsource".                                                          *)
(***************************************************************************)
FamilyLikelihood(method, toy) ==
    IF method = "pointsource"
        THEN pointsource_several_samples(detector.samples, detector.nobserved,
                                         toy.nbackground, toy.conv, toy.src,
                                         x_arr, NoOtherVar)
        ELSE poisson_several_samples(detector.nobserved, toy.nbackground,
                                     toy.conv, x_arr)

PriorOf(toy) ==
    signal_parameter(x_arr, toy.nbackground, toy.conv, parameters.prior_signal).val

RECURSIVE FamilySum(_, _)
FamilySum(method, n) ==
    IF n = 0 THEN zeros_like(x_arr)
    ELSE Broadcast(VAdd, FamilySum(method, n - 1),
                   Broadcast(VMul, FamilyLikelihood(method, toys[n]),
                             PriorOf(toys[n])))

C3_LikelihoodFamilySelects ==
    (call \in PosteriorCalls /\ pc = "returned"
     /\ parameters.likelihood_method \in KnownLikelihoods
     /\ \A t \in DOMAIN toys : PhysicalToy(toys[t])) =>
        post_arr = FamilySum(parameters.likelihood_method, Len(toys))

(***************************************************************************)
(* C4: at a grid point where a sample's expected count                     *)
(* nbackground + conv * trial is <= 0, logpoisson_one_sample is -inf, and  *)
(* poisson_several_samples is exactly 0 as soon as one sample is in that   *)
(* case, whatever the other samples contribute; a toy with such a point    *)
(* adds nothing to the posterior there.                                    *)
(***************************************************************************)
C4_NonPositiveExpectedIsZero ==
    \A t \in JustProcessed :
        LET toy == toys[t]
            logs == [i \in 1..NSamples |->
                        logpoisson_one_sample(detector.nobserved[i],
                                              toy.nbackground[i], toy.conv[i],
                                              x_arr)]
            lkl == poisson_several_samples(detector.nobserved, toy.nbackground,
                                           toy.conv, x_arr)
        IN  \A j \in DOMAIN x_arr.v :
                LET bad == {i \in 1..NSamples : ~QPos(Expected(toy, i, j))}
                IN  /\ \A i \in bad : logs[i].v[j] = LNInf
                    /\ (bad # {} => lkl.v[j] = VZero)
                    /\ (bad # {} /\ t = 1 => post_arr.v[j] = VZero)

C4_Witness ==
    /\ InPosterior
    /\ itoy = 2
    /\ pc = "loop"
    /\ \E j \in DOMAIN x_arr.v : \E i1, i2 \in 1..NSamples :
          /\ ~QPos(Expected(toys[1], i1, j))
          /\ QPos(Expected(toys[1], i2, j))
          /\ post_arr.v[j] = VZero
          /\ \E j2 \in DOMAIN x_arr.v : post_arr.v[j2] # VZero

(***************************************************************************)
(* C5: after each accumulation, and in the curve returned, every element   *)
(* of the posterior is >= 0 (never negative, never nan), for every         *)
(* recognised prior and toys whose conversion factors and backgrounds      *)
(* are >= 0.                                                               *)
(***************************************************************************)
C5_PosteriorNonNegative ==
    (InPosterior /\ \A t \in Processed : PhysicalToy(toys[t])) =>
        /\ IsGridArray(post_arr, x_arr)
        /\ \A j \in DOMAIN x_arr.v : VNonNeg(post_arr.v[j])

C5_Witness ==
    /\ InPosterior
    /\ pc = "returned"
    /\ parameters.prior_signal = "jeffrey"
    /\ Len(toys) >= 2
    /\ \A t \in DOMAIN toys : PhysicalToy(toys[t])
    /\ \E i \in 1..NSamples : toys[1].conv[i] = QZero
    /\ \E j \in DOMAIN x_arr.v : VSign(post_arr.v[j]) = "pos"

(***************************************************************************)
(* C6: the limit of get_limit_flux / get_limit_etot / get_limit_fnu is the *)
(* grid value at the smallest index whose cumulative trapezoidal integral  *)
(* of the normalized curve is >= 0.90: a grid point, within                *)
(* [grid.min(), grid.max()].                                               *)
(***************************************************************************)
LimitGrid == logspace(range_of(call, parameters)).v

\* cumulative integral of the returned curve over its total integral
CurveFraction(i) ==
    QDiv(cumtrapz(curve.v, LimitGrid, i), trapz(curve.v, LimitGrid))

C6_LimitIsFirstGridPointReachingCL ==
    (InLimit /\ limit.set) =>
        /\ trapz(curve.v, LimitGrid) # QZero
        /\ \E idx \in DOMAIN LimitGrid :
              /\ limit.value = LimitGrid[idx]
              /\ QLeq(CL, CurveFraction(idx))
              /\ \A j \in 1..(idx - 1) : QLt(CurveFraction(j), CL)
        /\ QLeq(LimitGrid[1], limit.value)
        /\ QLeq(limit.value, LimitGrid[Len(LimitGrid)])

C6_Witness ==
    /\ InLimit
    /\ pc = "returned"
    /\ limit.set
    /\ Len(LimitGrid) >= 3
    /\ limit.value = LimitGrid[2]
    /\ \A j \in DOMAIN curve.v : curve.v[j] # QZero

(***************************************************************************)
(* C7: when the posterior curve is zero at every grid point, the           *)
(* normalization called by the limit function fails with a numeric error:  *)
(* no limit is computed, returned, logged or saved.                        *)
(***************************************************************************)
ZeroCurve == \A j \in DOMAIN curve.v : curve.v[j] = QZero

C7_ZeroCurveFailsNormalization ==
    (InLimit /\ ZeroCurve) =>
        /\ pc \in {"normalize", "raised"}
        /\ (pc = "raised" => err = "ZeroDivisionError")
        /\ ~limit.set
        /\ files = NoFiles
        /\ logged = <<>>

C7_Witness ==
    /\ InLimit
    /\ ZeroCurve
    /\ outfile # "None"
    /\ pc = "raised"
    /\ err = "ZeroDivisionError"

(***************************************************************************)
(* C8: for every recognised prior type, signal_parameter returns an array  *)
(* with exactly one entry per grid point, every entry >= 0, also for       *)
(* jeffrey when some or all samples have a conversion factor <= 0.         *)
(***************************************************************************)
C8_PriorIsGridArray ==
    (InPosterior /\ parameters.prior_signal \in KnownPriors) =>
        \A t \in Processed :
            LET r == signal_parameter(x_arr, toys[t].nbackground, toys[t].conv,
                                      parameters.prior_signal)
            IN  /\ ~r.raised
                /\ IsGridArray(r.val, x_arr)
                /\ \A j \in DOMAIN x_arr.v : VNonNeg(r.val.v[j])

(***************************************************************************)
(* C9: in jeffrey_poisson a sample with conversion factor <= 0 adds 0      *)
(* under the square root: at every grid point the prior is the square root *)
(* of the sum of conv^2 / (conv * trial + background) over the samples     *)
(* with conv > 0 only, and with a single sample of conv = 0 it is 0 at     *)
(* every grid point; a toy whose samples all have conv <= 0 adds nothing   *)
(* to a jeffrey posterior.                                                 *)
(***************************************************************************)
RECURSIVE FisherSum(_, _, _)
FisherSum(toy, j, S) ==
    IF S = {} THEN QZero
    ELSE LET i == CHOOSE k \in S : TRUE
             c == toy.conv[i]
         IN  QAdd(QDiv(QMul(c, c), QAdd(QMul(c, x_arr.v[j]), toy.nbackground[i])),
                  FisherSum(toy, j, S \ {i}))

C9_JeffreyIgnoresNonPositiveConv ==
    \A t \in JustProcessed :
        LET toy == toys[t]
            sensitive == {i \in 1..NSamples : QPos(toy.conv[i])}
            prior == jeffrey_poisson(x_arr, toy.nbackground, toy.conv)
            single == [i \in 1..NSamples |->
                          jeffrey_poisson(x_arr, <<toy.nbackground[i]>>,
                                          <<toy.conv[i]>>)]
        IN  \A j \in DOMAIN x_arr.v :
                /\ At(prior, j) = VSqrt(Fin(FisherSum(toy, j, sensitive)))
                /\ \A i \in 1..NSamples :
                      toy.conv[i] = QZero => At(single[i], j) = VZero
                /\ (/\ sensitive = {}
                    /\ parameters.prior_signal = "jeffrey"
                    /\ t = 1) => post_arr.v[j] = VZero

C9_Witness ==
    /\ InPosterior
    /\ parameters.prior_signal = "jeffrey"
    /\ pc = "returned"
    /\ Len(toys) >= 2
    /\ \E i1, i2 \in 1..NSamples :
          /\ toys[1].conv[i1] = QZero
          /\ QPos(toys[1].conv[i2])
    /\ \E i1, i2 \in 1..NSamples :
          /\ QLt(toys[2].conv[i1], QZero)
          /\ QPos(toys[2].conv[i2])
    /\ \E j \in DOMAIN x_arr.v :
          At(jeffrey_poisson(x_arr, toys[2].nbackground, toys[2].conv), j) # VZero

(***************************************************************************)
(* C10: the posterior is the unweighted sum over the toys of               *)
(* (multi-sample likelihood x prior weight) on the same grid: after every  *)
(* iteration it holds each processed toy exactly once, and the sum is the  *)
(* same in whatever order the toys are added.                              *)
(***************************************************************************)
Orders(S) == {f \in [1..Cardinality(S) -> S] :
                 \A a, b \in 1..Cardinality(S) : a # b => f[a] # f[b]}

RECURSIVE SumInOrder(_, _, _)
SumInOrder(terms, order, n) ==
    IF n = 0 THEN zeros_like(x_arr)
    ELSE Broadcast(VAdd, SumInOrder(terms, order, n - 1), terms[order[n]])

\* the summands of the first n toys
RECURSIVE Terms(_)
Terms(n) ==
    IF n = 0 THEN <<>>
    ELSE Append(Terms(n - 1),
                toy_term(detector, toys[n], x_arr, parameters).val)

C10_PosteriorIsUnweightedSum ==
    (InPosterior /\ parameters.prior_signal \in KnownPriors) =>
        LET n == Cardinality(Processed)
            terms == Terms(n)
        IN  /\ post_arr = SumInOrder(terms, [i \in 1..n |-> i], n)
            /\ pc = "returned" =>
                  \A order \in Orders(Processed) :
                      post_arr = SumInOrder(terms, order, n)

C10_Witness ==
    /\ InPosterior
    /\ pc = "returned"
    /\ Len(toys) = 2
    /\ toys[1] # toys[2]
    /\ LET t1 == toy_term(detector, toys[1], x_arr, parameters).val
           t2 == toy_term(detector, toys[2], x_arr, parameters).val
       IN  /\ t1 # t2
           /\ \E j \in DOMAIN x_arr.v :
                 /\ t1.v[j] # VZero
                 /\ t2.v[j] # VZero
                 /\ post_arr.v[j] # t1.v[j]
                 /\ post_arr.v[j] # t2.v[j]

(***************************************************************************)
(* C13: for a sample without event list logpointsource_one_sample returns  *)
(* the value of logpoisson_one_sample for the same nobserved, nbackground, *)
(* conv and grid, whatever the source direction, other_var and the         *)
(* sample's pdfs are; and when no sample has an event list,                *)
(* pointsource_several_samples returns what poisson_several_samples        *)
(* returns.                                                                *)
(***************************************************************************)
InLkl == call = "pointsource_several_samples"
NoEventLists == \A i \in DOMAIN detector.samples : ~detector.samples[i].events.present

C13_PointSourceFallsBackToPoisson ==
    InLkl =>
        /\ (/\ pc = "samples"
            /\ isample > 1
            /\ ~detector.samples[isample - 1].events.present)
           => loglkl_one = logpoisson_one_sample(detector.nobserved[isample - 1],
                                                 toys[1].nbackground[isample - 1],
                                                 toys[1].conv[isample - 1], x_arr)
        /\ (pc = "returned" /\ NoEventLists)
           => likelihood = poisson_several_samples(detector.nobserved,
                                                   toys[1].nbackground,
                                                   toys[1].conv, x_arr)

\* a call that returned a likelihood which is not zero everywhere, for samples
\* without event lists of which one has densities attached and counts an
\* event, with a source direction other than the first and with other_var
\* supplying both window parameters
C13_Witness ==
    /\ InLkl
    /\ pc = "returned"
    /\ NoEventLists
    /\ detector.samples[1].pdfs.signal.ang
    /\ detector.nobserved[1] > 0
    /\ toys[1].src = 2
    /\ has_var_time_of(other_var)
    /\ \E j \in DOMAIN likelihood.v : likelihood.v[j] # VZero

(***************************************************************************)
(* C15: in logpointsource_one_sample the signal term of every event is the *)
(* original expected signal count conv * var times that event's own signal *)
(* densities.  After any number of events the array bound to nsignal is    *)
(* still conv * var, and the log-likelihood of the sample is the term      *)
(* before the loop plus, for each event processed, the log of              *)
(* conv * var * (signal densities of the event)                            *)
(*   + nbackground * (background densities of the event),                  *)
(* a sum that does not depend on the order of the events and that counts   *)
(* k identical events k times.                                             *)
(***************************************************************************)
OwnEventLog(s, evt, n_bkg, cv, src, hvt) ==
    Map(LAMBDA q : LLog(QAdd(QMul(QMul(cv, q), pdf_signal(s, evt, src, hvt)),
                             QMul(n_bkg, pdf_background(s, evt)))),
        x_arr)

RECURSIVE OwnEventsLog(_, _, _, _, _, _)
OwnEventsLog(s, n_bkg, cv, src, hvt, n) ==
    IF n = 0 THEN Map(LAMBDA q : LZero, x_arr)
    ELSE Broadcast(LAdd, OwnEventsLog(s, n_bkg, cv, src, hvt, n - 1),
                   OwnEventLog(s, s.events.list[n], n_bkg, cv, src, hvt))

C15_EventSignalTermUsesOriginalCount ==
    (InLkl /\ pc = "events" /\ PhysicalToy(toys[1])) =>
        LET s == detector.samples[isample]
            n_bkg == toys[1].nbackground[isample]
            cv == toys[1].conv[isample]
            b == pointsource_begin(detector.nobserved[isample], n_bkg, cv, x_arr)
        IN  /\ ievt <= Len(s.events.list)
                   => nsignal = Map(LAMBDA q : QMul(cv, q), x_arr)
            /\ loglkl_one =
                   Broadcast(LAdd, b.loglkl,
                             OwnEventsLog(s, n_bkg, cv, toys[1].src,
                                          has_var_time_of(other_var), ievt - 1))

(***************************************************************************)
(* C17: in logpointsource_one_sample the time density is called with the   *)
(* window parameters (t0, sigma_t) only for the signal hypothesis and only *)
(* when other_var supplies both "t0" and "sigma_t"; in every other case    *)
(* (background hypothesis, no other_var, one key only) it is called with   *)
(* the event alone.  A density that is None is not called and contributes  *)
(* no factor: the densities called for an event are exactly those that are *)
(* not None, and the signal count is multiplied by the values of the       *)
(* signal densities called, and by nothing else.                           *)
(***************************************************************************)
BothWindowKeys ==
    other_var.present /\ {"t0", "sigma_t"} \subseteq other_var.keys

\* value a density returns for the event when called with the arguments
DensityValue(evt, c, src) ==
    IF c.n = "signal"
        THEN IF c.kind = "ang" THEN evt.sig_ang[src]
             ELSE IF c.kind = "ene" THEN evt.sig_ene
             ELSE IF c.args = "evt,t0,sigma_t" THEN evt.sig_time_var
             ELSE evt.sig_time
        ELSE IF c.kind = "ang" THEN evt.bkg_ang
             ELSE IF c.kind = "ene" THEN evt.bkg_ene
             ELSE evt.bkg_time

RECURSIVE SignalFactor(_, _, _, _)
SignalFactor(evt, calls, src, n) ==
    IF n = 0 THEN QOne
    ELSE QMul(SignalFactor(evt, calls, src, n - 1),
              IF calls[n].n = "signal" THEN DensityValue(evt, calls[n], src)
              ELSE QOne)

\* the event processed last
LastEvent == detector.samples[isample].events.list[ievt - 1]

C17_TimeDensityArguments ==
    (InLkl /\ pc = "events" /\ ievt > 1) =>
        LET s == detector.samples[isample] IN
        /\ \A i \in DOMAIN pdf_calls :
               /\ s.pdfs[pdf_calls[i].n][pdf_calls[i].kind]
               /\ pdf_calls[i].kind = "time" =>
                      (pdf_calls[i].args = "evt,t0,sigma_t"
                           <=> (pdf_calls[i].n = "signal" /\ BothWindowKeys))
               /\ pdf_calls[i].args \in {"evt", "evt,t0,sigma_t", "evt,ra_src,dec_src"}
        /\ \A n \in {"signal", "background"} : \A k \in {"ang", "ene", "time"} :
               s.pdfs[n][k] =>
                   Cardinality({i \in DOMAIN pdf_calls :
                                   pdf_calls[i].n = n /\ pdf_calls[i].kind = k}) = 1
        /\ ievt = 2 =>
               nsignal = Map(LAMBDA q :
                                 QMul(QMul(toys[1].conv[isample], q),
                                      SignalFactor(LastEvent, pdf_calls,
                                                   toys[1].src, Len(pdf_calls))),
                             x_arr)

\* an event of a sample with both time densities was processed while
\* other_var held only one of the two keys
C17_Witness ==
    /\ InLkl
    /\ pc = "events"
    /\ ievt > 1
    /\ detector.samples[isample].pdfs.signal.time
    /\ detector.samples[isample].pdfs.background.time
    /\ other_var.present
    /\ other_var.keys = {"t0"}
    /\ \E i \in DOMAIN pdf_calls : pdf_calls[i].kind = "time"

(***************************************************************************)
(* C16: get_limit_flux_with_othervars builds its primary flux grid from    *)
(* range_flux of the parameters: the grid of its variable "flux", along    *)
(* the first axis of x["flux"], is the grid get_limit_flux uses for the    *)
(* same parameters, np.logspace over range_flux.                           *)
(***************************************************************************)
InMarg == call = "get_limit_flux_with_othervars"
FluxGrid == PosteriorVariable("flux", parameters.range_flux).array

C16_OthervarsUsesFluxRange ==
    (InMarg /\ pc # "call") =>
        /\ x["flux"].shape[1] = Len(FluxGrid.v)
        /\ \A idx \in Indices(x["flux"].shape) :
               x["flux"].v[idx] = FluxGrid.v[idx[1]]

(***************************************************************************)
(* C12: in get_limit_flux_with_othervars, for every primary grid index the *)
(* marginal value (joint density times the nuisance priors, times the      *)
(* finite differences of the nuisance grids, summed over the nuisance      *)
(* axes) equals the trapezoidal integral of that density over the nuisance *)
(* grid; the primary axis is not integrated.                               *)
(* As amended: the marginal value equals the left Riemann sum of that      *)
(* density over the nuisance grids, in which every nuisance grid point but *)
(* the last of its axis counts with the distance to the next grid point;   *)
(* the primary axis is not integrated.                                     *)
(***************************************************************************)
MargVariables == othervars_variables(parameters, other_variables)

\* joint density returned by the posterior computation times the priors of
\* the nuisance variables
RECURSIVE PriorProduct(_, _)
PriorProduct(idx, n) ==
    IF n <= 1 THEN QOne
    ELSE QMul(PriorProduct(idx, n - 1),
              prior_value(MargVariables[n], MargVariables[n].array.v[idx[n]]))
Density(idx) == QMul(curve.v[idx], PriorProduct(idx, Len(MargVariables)))

\* iterated trapezoidal integral over the axes a, a + 1, ...
RECURSIVE TrapzAxes(_, _)
TrapzAxes(idx, a) ==
    IF a > Len(MargVariables) THEN Density(idx)
    ELSE LET g == MargVariables[a].array.v
         IN  trapz([j \in 1..Len(g) |->
                       TrapzAxes([b \in 1..Len(MargVariables) |->
                                     IF b = a THEN j ELSE idx[b]], a + 1)], g)

\* left Riemann sum over the nuisance grids: every grid point but the last of
\* each nuisance axis, with the distances to the next grid points
RECURSIVE WidthProduct(_, _)
WidthProduct(idx, n) ==
    IF n <= 1 THEN QOne
    ELSE LET g == MargVariables[n].array.v
         IN  QMul(WidthProduct(idx, n - 1), QSub(g[idx[n] + 1], g[idx[n]]))
LeftRiemann(i) ==
    LET k == Len(MargVariables)
        cells == {idx \in Indices(grid_shape(MargVariables)) :
                     /\ idx[1] = i
                     /\ \A a \in 2..k : idx[a] < Len(MargVariables[a].array.v)}
    IN  SumOver([idx \in cells |-> QMul(Density(idx), WidthProduct(idx, k))], cells)

Marginalized == InMarg /\ pc = "normalize"

C12_MarginalIsTrapezoid ==
    Marginalized =>
        /\ Len(Y.v) = Len(MargVariables[1].array.v)
        /\ \A i \in DOMAIN Y.v :
               Y.v[i] = TrapzAxes([a \in 1..Len(MargVariables) |->
                                      IF a = 1 THEN i ELSE 1], 2)

C12_MarginalIsLeftRiemannSum ==
    Marginalized =>
        /\ Len(Y.v) = Len(MargVariables[1].array.v)
        /\ \A i \in DOMAIN Y.v : Y.v[i] = LeftRiemann(i)

\* a marginal over two nuisance variables with grids of several points, one
\* of them with a prior that is not flat, which is not zero and is not the
\* trapezoidal integral
C12_Witness ==
    /\ Marginalized
    /\ Len(other_variables) = 2
    /\ \A a \in 1..2 : Len(other_variables[a].array.v) >= 2
    /\ \E a \in 1..2 : other_variables[a].prior # "flat"
    /\ \E i \in DOMAIN Y.v :
           /\ Y.v[i] # QZero
           /\ Y.v[i] # TrapzAxes([a \in 1..3 |-> IF a = 1 THEN i ELSE 1], 2)

(***************************************************************************)
(* C11: in get_limit_flux_with_othervars, with a single nuisance variable  *)
(* that has a flat prior and a grid of one point, the marginal curve over  *)
(* the primary variable is the curve of the computation without nuisance   *)
(* variable, which is the joint posterior at that one nuisance grid point; *)
(* and the call does not fail where that curve can be normalized.          *)
(***************************************************************************)
SingleBinNuisance ==
    /\ InMarg
    /\ Len(other_variables) = 1
    /\ other_variables[1].prior = "flat"
    /\ Len(other_variables[1].array.v) = 1

PlainCurve == Arr([i \in 1..curve.shape[1] |-> curve.v[<<i, 1>>]])

C11_SingleBinMarginalIsPlainCurve ==
    SingleBinNuisance =>
        /\ pc = "normalize" => Y = PlainCurve
        /\ (pc = "raised" /\ err = "ZeroDivisionError")
               => normalize(MargVariables[1].array, PlainCurve).raised

(***************************************************************************)
(* C14: the map of get_limitmap_flux has one entry per sky pixel           *)
(* (nside2npix(parameters.nside) entries); every pixel of the search       *)
(* region that the loop has processed holds the limit of the posterior     *)
(* computed with the GW position fixed to that pixel, every other pixel is *)
(* NaN, and in the map returned every pixel of the region is processed:    *)
(* the limit written for one pixel leaves the entries of the others alone. *)
(***************************************************************************)
InMap == call = "get_limitmap_flux"
MapGrid == PosteriorVariable("flux", parameters.range_flux).array

\* limit of the posterior curve c on the flux grid
PixelLimit(c) ==
    LET n == normalize(MapGrid, c)
    IN  compute_upperlimit_from_x_y(n.x, n.y).value

ProcessedPositions == {k \in 1..Len(region) : k < iregion}

C14_LimitMapPerPixel ==
    (InMap /\ pc # "call") =>
        /\ DOMAIN limits = 0..(nside2npix(parameters.nside) - 1)
        /\ \A p \in DOMAIN limits :
               IF \E k \in ProcessedPositions : region[k] = p
                   THEN \A k \in ProcessedPositions :
                            region[k] = p =>
                                /\ pixel_curves[k].ipix = p
                                /\ limits[p] = Fin(PixelLimit(pixel_curves[k].y))
                   ELSE limits[p] = NaN
        /\ pc = "returned" => ProcessedPositions = 1..Len(region)

\* a map returned and saved for a region of two pixels, listed in descending
\* order, whose limits differ
C14_Witness ==
    /\ InMap
    /\ pc = "returned"
    /\ outfile # "None"
    /\ Len(region) = 2
    /\ region[1] > region[2]
    /\ limits[region[1]] # limits[region[2]]
    /\ limits[region[1]] # NaN
    /\ limits[region[2]] # NaN

(***************************************************************************)
(* C18: get_limit_flux / get_limit_etot / get_limit_fnu write nothing (no  *)
(* directory, no .npy, no .png) when outfile is None; when outfile is      *)
(* given, what is saved to outfile.npy is the pair [grid, curve] of the    *)
(* normalized grid and curve, and the limit returned is the one extracted  *)
(* from that pair; the limit returned is determined by the grid and the    *)
(* posterior curve alone, so it is the same with and without outfile.      *)
(***************************************************************************)
NormalizedPair == normalize(Arr(LimitGrid), curve)

C18_OutfileOnlyAddsFiles ==
    InLimit =>
        /\ outfile = "None" => files = NoFiles
        /\ files # NoFiles =>
               /\ outfile # "None"
               /\ files.dir /\ files.png
               /\ files.npy = <<NormalizedPair.x, NormalizedPair.y>>
               /\ limit.set
               /\ limit.value =
                      compute_upperlimit_from_x_y(files.npy[1], files.npy[2]).value
        /\ pc = "returned" =>
               /\ outfile # "None" => files # NoFiles
               /\ limit.set
               /\ limit.value =
                      compute_upperlimit_from_x_y(NormalizedPair.x,
                                                  NormalizedPair.y).value

\* a limit returned with outfile given, for a curve that normalization changes
C18_Witness ==
    /\ InLimit
    /\ pc = "returned"
    /\ outfile # "None"
    /\ files.npy # <<>>
    /\ files.npy[2] # curve
    /\ limit.set

====
